---- MODULE Spec2Model ----
(***************************************************************************)
(* Model of astrolabe/atlas_runner.py: the test-case engine AtlasTestCase  *)
(* (initialize, run, wait_for_state, wait_for_planning,                    *)
(* log_cluster_status), the scheduler SpecTestRunnerBase.run (Spec) and    *)
(* SpecTestRunnerBase.clean_old_projects (CleanSpec).                      *)
(*                                                                         *)
(* The program is single threaded, so its position is one program counter  *)
(* pc.  The remote control plane, the workload subprocess and the clock    *)
(* are the environment: every answer they give is a nondeterministic       *)
(* choice.  Time is counted in seconds.                                    *)
(***************************************************************************)
EXTENDS Integers, Sequences, FiniteSets, TLC

\* ------------------------------------------------------------------ bounds
MaxCases == 2          \* cases of the worklist
MaxOps == 2            \* operations of one specification
MaxStat == 1           \* largest counter of the workload statistics
PollingTimeout == 2    \* config.polling_timeout, seconds
PollInterval == 1      \* 1.0 / config.polling_frequency, seconds
SlowCall == 150        \* seconds a slow restartPrimaries request may take
MaxName == 5           \* characters of a project name
MaxProjects == 2       \* projects of the organization

\* ------------------------------------------------------- program constants
FailoverTimeout == 300       \* timeout = 300
ClockDriftSleep == 5         \* _time.sleep(5) before the restart loop
RetrySleep == 5              \* sleep(5) between restart requests
PlanningSleep == 5           \* _time.sleep(5) in wait_for_planning
RegionSleep == 5             \* sleep(5) in the assertPrimaryRegion loop
RegionTimeoutDefault == 90   \* op_spec.get("timeout", 90)
LogTimeout == 1800           \* log_cluster_status(timeout=1800)
LogSleep == 5                \* sleep(5) in log_cluster_status
ExpirationThreshold == 7200  \* project_expiration_threshold_seconds

VARIABLES
    cases,             \* SpecTestRunnerBase.cases: the cases' specifications
    persist_clusters,  \* SpecTestRunnerBase.persist_clusters
    no_create,         \* SpecTestRunnerBase.no_create
    pc,                \* position of the single thread of control
    error,             \* the exception in flight or propagated, or "none"
    initIdx,           \* number of cases the Step-1 loop has initialized
    remaining,         \* remaining_test_cases, as indices into cases
    all_ok,            \* the sentinel flag of SpecTestRunnerBase.run
    result,            \* the value SpecTestRunnerBase.run returned, or "none"
    failed,            \* AtlasTestCase.failed, per case
    workload,          \* state of each case's workload subprocess
    reports,           \* xunit entries written, in order
    log,               \* calls the scheduler made on the cases, in order
    op_index,          \* operations of the active case completed so far
    operation,         \* the operation record being executed
    timer,             \* which Timer the local name `timer` of run is bound to
    stats,             \* what workload_runner.stop() returned
    junit_test,        \* the verdict record of the active run
    deletes,           \* cluster deletion requests issued, per case
    target_state,      \* wait_for_state: the state waited for
    ret,               \* wait_for_state: where its caller continues
    elapsed,           \* timer.elapsed of the loop in progress
    actual_state,      \* wait_for_state: last state fetched, or "unbound"
    obs,               \* cluster states an operation saw since its last request
    fo,                \* restartPrimaries requests of the testFailover at hand
    member_region,     \* assertPrimaryRegion: the local member_region
    patches,           \* setClusterConfiguration: patch requests sent, in order
    raised_at,         \* the position at which error was raised
    init_call,         \* the control plane's answers to the last initialize
    init_requests,     \* mutating requests the initialize calls issued
    project_base_name, \* config.project_base_name, a string of characters
    current_timestamp, \* clean_old_projects: int(_time.time())
    project,           \* clean_old_projects: name of the project examined
    proj_idx,          \* clean_old_projects: projects examined so far
    delete_request,    \* answer to the project's delete request, or "none"
    not_found          \* GROUP_NOT_FOUND answers tolerated so far

vars == <<cases, persist_clusters, no_create, pc, error, initIdx, remaining,
          all_ok, result, failed, workload, reports, log, op_index, operation,
          timer, stats, junit_test, deletes, target_state, ret, elapsed,
          actual_state, obs, fo, member_region, patches, raised_at, init_call,
          init_requests, project_base_name, current_timestamp, project,
          proj_idx, delete_request, not_found>>

cleanVars == <<project_base_name, current_timestamp, project, proj_idx,
               delete_request, not_found>>
initVars == <<init_call, init_requests>>
schedVars == <<cleanVars, initVars, cases, persist_clusters, no_create, initIdx,
               remaining, all_ok, result, failed, reports, log>>
pollVars == <<target_state, ret, elapsed, actual_state>>
runVars == <<op_index, operation, timer, stats, junit_test, deletes, workload>>
opVars == <<obs, fo, member_region, patches>>

\* ------------------------------------------------------------ value sets
ClusterStates == {"idle", "updating", "repairing"}

NoOp == [name |-> "none", keys |-> 0, cc |-> FALSE, pa |-> FALSE, timeout |-> 0]

Op(n) == [name |-> n, keys |-> 1, cc |-> FALSE, pa |-> FALSE, timeout |-> 0]

\* The operation records a specification may hold.  keys is len(operation);
\* cc and pa tell whether a setClusterConfiguration carries a cluster
\* configuration and process arguments; timeout is assertPrimaryRegion's.
Operations ==
    {[Op("setClusterConfiguration") EXCEPT !.cc = c, !.pa = p] : c, p \in BOOLEAN}
    \cup {Op("testFailover"), Op("sleep"), Op("waitForIdle"), Op("restartVms")}
    \cup {[Op("assertPrimaryRegion") EXCEPT !.timeout = t] :
            t \in {0, RegionTimeoutDefault}}
    \cup {Op("bogusOperation")}
    \cup {[Op("sleep") EXCEPT !.keys = k] : k \in {0, 2}}

NoStats == [numErrors |-> -1, numFailures |-> -1, numSuccesses |-> -1]

Stats == [numErrors : 0..MaxStat, numFailures : 0..MaxStat, numSuccesses : 0..MaxStat]

NoJunit == [time_from |-> "none", result |-> "none"]

\* What the fetches made since the last patch or reboot request have shown:
\* "updating"; "idle" after an "updating"; "idle" before any "updating"; some
\* other state; a fetch that failed.
NoObs == [updating |-> FALSE, idleAfter |-> FALSE, idleBefore |-> FALSE,
          other |-> FALSE, fetchError |-> FALSE]

\* planned holds the lastPlanningDate fetched last by wait_for_planning, if any.
NoFo == [posts |-> 0, rejected |-> 0, accepted |-> 0, planned |-> <<>>]

\* No initialize call has been made, or its answers are no longer kept.
NoCall == [reuse |-> FALSE, probe |-> "none", matches |-> FALSE, post |-> "none",
           patch |-> "none", process_args |-> FALSE, pa_patch |-> "none",
           error |-> "none"]

Active == IF remaining = <<>> THEN 0 ELSE remaining[1]

\* ------------------------------------------------------------------- Init
Init ==
    /\ \E n \in 0..MaxCases : cases \in [1..n -> [expect_failure : BOOLEAN]]
    /\ persist_clusters \in BOOLEAN
    /\ no_create \in BOOLEAN
    /\ pc = "sched_init"
    /\ error = "none"
    /\ initIdx = 0
    /\ remaining = <<>>
    /\ all_ok = TRUE
    /\ result = "none"
    /\ failed = [i \in DOMAIN cases |-> FALSE]
    /\ workload = [i \in DOMAIN cases |-> "none"]
    /\ reports = <<>>
    /\ log = <<>>
    /\ op_index = 0
    /\ operation = NoOp
    /\ timer = "none"
    /\ stats = NoStats
    /\ junit_test = NoJunit
    /\ deletes = [i \in DOMAIN cases |-> 0]
    /\ target_state = "none"
    /\ ret = "none"
    /\ elapsed = 0
    /\ actual_state = "unbound"
    /\ obs = NoObs
    /\ fo = NoFo
    /\ member_region = "unbound"
    /\ patches = <<>>
    /\ raised_at = "none"
    /\ init_call = NoCall
    /\ init_requests = [i \in DOMAIN cases |-> <<>>]
    /\ project_base_name = <<>>
    /\ current_timestamp = 0
    /\ project = <<>>
    /\ proj_idx = 0
    /\ delete_request = "none"
    /\ not_found = 0

\* ---------------------------------------------------------------- helpers
PyBool(b) == IF b THEN "True" ELSE "False"

\* The positions inside the try block of AtlasTestCase.run.
TryPcs == {"run_ops", "set_push", "set_wait_idle", "set_verify", "fo_start",
           "fo_restart", "fo_planning", "fo_wait_idle", "op_sleep",
           "op_wait_idle", "rv_reboot", "rv_wait_idle", "apr_start",
           "apr_poll", "apr_log", "apr_recheck", "op_done", "run_settle",
           "run_stop", "run_verdict", "run_delete"}

\* Mutant of InTry: the try block ends before the workload is stopped.
InTryEndsBeforeStop ==
    \/ pc \in TryPcs \ {"run_stop", "run_verdict", "run_delete"}
    \/ pc = "wait_for_state" /\ ret # "run_verify"

InTry == \/ pc \in TryPcs
         \/ pc = "wait_for_state" /\ ret # "run_verify"

\* raise e: inside the try block of run control passes to its finally
\* clause; anywhere else the exception leaves SpecTestRunnerBase.run, which
\* handles none.
Raise(e) ==
    /\ error' = e
    /\ raised_at' = pc
    /\ pc' = IF InTry THEN "run_finally" ELSE "aborted"

\* The call self.wait_for_state(target), continuing at r when it returns.
CallWait(target, r) ==
    /\ pc' = "wait_for_state"
    /\ target_state' = target
    /\ ret' = r
    /\ elapsed' = 0
    /\ actual_state' = "unbound"

\* def wait_for_idle(self): self.wait_for_state("idle")
WaitForIdle(r) == CallWait("idle", r)

\* Mutant of WaitForUpdating: the wait for "updating" waits for "idle".
WaitForUpdatingWaitsIdle(r) == CallWait("idle", r)

\* def wait_for_updating(self): self.wait_for_state("updating")
WaitForUpdating(r) == CallWait("updating", r)

\* What the fetch of a cluster state adds to the observations made since
\* the last patch or reboot request.
Observe(o, s) ==
    IF s = "AtlasClientError" THEN [o EXCEPT !.fetchError = TRUE]
    ELSE IF s = "updating" THEN [o EXCEPT !.updating = TRUE]
    ELSE IF s = "idle"
         THEN IF o.updating THEN [o EXCEPT !.idleAfter = TRUE]
                            ELSE [o EXCEPT !.idleBefore = TRUE]
         ELSE [o EXCEPT !.other = TRUE]

\* A mutating request of initialize: the call, and whether its arguments
\* hold the key "name" (cluster_config["name"] is set before the create
\* request and popped before the reconfiguration).
Request(call, name) == [call |-> call, name |-> name]

\* Mutant of Initialize: the re-use of an existing cluster is skipped.
InitializeAlwaysCreates(reuse, probe, matches, post, patch, process_args, pa_patch) ==
    [requests |-> <<Request("clusters.post", TRUE)>>,
     error |-> IF post = "ok" THEN "none" ELSE "AtlasApiError"]

\* AtlasTestCase.initialize: the mutating requests it issues and the error it
\* ends with, from its argument no_create (reuse) and the control plane's
\* answers.
\*   probe: answer to the existence probe; matches: whether the remote
\*   configuration contains the initial one; post: answer to the create
\*   request; patch: answer to the reconfigure request; process_args: whether
\*   the specification has process arguments; pa_patch: answer to their patch.
Initialize(reuse, probe, matches, post, patch, process_args, pa_patch) ==
    IF reuse /\ probe = "ok" /\ matches
    THEN [requests |-> <<>>, error |-> "none"]
    ELSE LET created ==
                 IF post = "ok"
                 THEN [requests |-> <<Request("clusters.post", TRUE)>>,
                       error |-> "none"]
                 ELSE IF post = "DUPLICATE_CLUSTER_NAME"
                 THEN [requests |-> <<Request("clusters.post", TRUE),
                                      Request("clusters.patch", FALSE)>>,
                       error |-> IF patch = "ok" THEN "none" ELSE "AtlasApiError"]
                 ELSE [requests |-> <<Request("clusters.post", TRUE)>>,
                       error |-> "AtlasApiError"]
         IN IF created.error = "none" /\ process_args
            THEN [requests |-> Append(created.requests,
                                      Request("processArgs.patch", FALSE)),
                  error |-> IF pa_patch = "ok" THEN "none" ELSE "AtlasApiError"]
            ELSE created

Answers == {"ok", "OTHER_ERROR"}

\* ------------------------------------------------- SpecTestRunnerBase.run
\* Step-1: for case in self.cases: case.initialize(no_create=self.no_create)
SchedInitialize ==
    /\ pc = "sched_init"
    /\ initIdx < Len(cases)
    /\ log' = Append(log, <<"initialize", initIdx + 1>>)
    /\ \E matches, process_args \in BOOLEAN :
       \E probe \in Answers \cup {"CLUSTER_NOT_FOUND"} :
       \E post \in Answers \cup {"DUPLICATE_CLUSTER_NAME"} :
       \E patch, pa_patch \in Answers :
          LET r == Initialize(no_create, probe, matches, post, patch,
                              process_args, pa_patch)
          IN /\ init_call' = [reuse |-> no_create, probe |-> probe,
                               matches |-> matches, post |-> post,
                               patch |-> patch, process_args |-> process_args,
                               pa_patch |-> pa_patch, error |-> r.error]
             /\ init_requests' = [init_requests EXCEPT ![initIdx + 1] = r.requests]
             /\ IF r.error = "none"
                THEN /\ initIdx' = initIdx + 1
                     /\ UNCHANGED <<pc, error, raised_at>>
                ELSE /\ Raise(r.error)
                     /\ UNCHANGED initIdx
    /\ UNCHANGED <<cleanVars, cases, persist_clusters, no_create,
                   remaining, all_ok, result, failed,
                   reports>>
    /\ UNCHANGED <<runVars, pollVars, opVars>>

\* Mutant of SchedCopy: Step-2 starts once the first case is initialized.
SchedCopyEarly ==
    /\ pc = "sched_init"
    /\ initIdx >= 1
    /\ remaining' = [i \in 1..Len(cases) |-> i]
    /\ pc' = "sched_loop"
    /\ init_call' = NoCall
    /\ init_requests' = [i \in DOMAIN cases |-> <<>>]
    /\ UNCHANGED <<cleanVars, cases, persist_clusters, no_create,
                   initIdx, all_ok, result, failed,
                   reports, log, error, raised_at>>
    /\ UNCHANGED <<runVars, pollVars, opVars>>

\* Step-2: remaining_test_cases = self.cases.copy().  The answers and the
\* requests of Step-1 are no longer kept.
SchedCopy ==
    /\ pc = "sched_init"
    /\ initIdx = Len(cases)
    /\ remaining' = [i \in 1..Len(cases) |-> i]
    /\ pc' = "sched_loop"
    /\ init_call' = NoCall
    /\ init_requests' = [i \in DOMAIN cases |-> <<>>]
    /\ UNCHANGED <<cleanVars, cases, persist_clusters, no_create,
                   initIdx, all_ok, result, failed,
                   reports, log, error, raised_at>>
    /\ UNCHANGED <<runVars, pollVars, opVars>>

\* while remaining_test_cases: active_case = remaining_test_cases[0];
\* active_case.wait_for_idle()
SchedWaitForIdle ==
    /\ pc = "sched_loop"
    /\ remaining # <<>>
    /\ log' = Append(log, <<"wait_for_idle", Active>>)
    /\ WaitForIdle("run_verify")
    /\ UNCHANGED <<cleanVars, initVars, cases, persist_clusters, no_create,
                   initIdx, remaining, all_ok,
                   result, failed, reports, error, raised_at>>
    /\ UNCHANGED <<runVars, opVars>>

\* The worklist is empty: return not all_ok
SchedReturn ==
    /\ pc = "sched_loop"
    /\ remaining = <<>>
    /\ result' = PyBool(~all_ok)
    /\ pc' = "done"
    /\ UNCHANGED <<cleanVars, initVars, cases, persist_clusters, no_create,
                   initIdx, remaining, all_ok, failed,
                   reports, log, error, raised_at>>
    /\ UNCHANGED <<runVars, pollVars, opVars>>

\* Mutant of Remove: the last element is dropped.
RemoveLast(seq, x) == SubSeq(seq, 1, Len(seq) - 1)

\* remaining_test_cases.remove(active_case): the list without the first
\* element equal to x.
Remove(seq, x) ==
    LET k == CHOOSE k \in 1..Len(seq) :
                 seq[k] = x /\ \A j \in 1..(k - 1) : seq[j] # x
    IN SubSeq(seq, 1, k - 1) \o SubSeq(seq, k + 1, Len(seq))

\* Mutant of UpdateAllOk: the flag follows the last case alone.
UpdateAllOkLastCase(ok, case_failed) == ~case_failed

\* if active_case.failed: all_ok = False
UpdateAllOk(ok, case_failed) == IF case_failed THEN FALSE ELSE ok

\* write_xml, remaining_test_cases.remove(active_case), the all_ok update.
SchedReport ==
    /\ pc = "sched_report"
    /\ reports' = Append(reports, [id |-> Active, result |-> junit_test.result])
    /\ log' = Append(log, <<"write_xml", Active>>)
    /\ remaining' = Remove(remaining, Active)
    /\ all_ok' = UpdateAllOk(all_ok, failed[Active])
    /\ pc' = "sched_loop"
    /\ op_index' = 0
    /\ operation' = NoOp
    /\ timer' = "none"
    /\ stats' = NoStats
    /\ junit_test' = NoJunit
    /\ UNCHANGED <<cleanVars, initVars, cases, persist_clusters, no_create,
                   initIdx, result, failed, error,
                   raised_at, deletes, workload>>
    /\ UNCHANGED <<pollVars, opVars>>

\* ------------------------------------------- AtlasTestCase.wait_for_state
\* The elapsed time at which the fetch of an iteration begun at e starts:
\* sleep(1.0 / polling_frequency) comes first.
FetchTime(e) == e + PollInterval

\* Mutant of Reached: any state fetched counts as the target.
ReachedAnyState(fetched, target) == TRUE

\* if actual_state == target_state
Reached(fetched, target) == fetched = target

\* One iteration of the loop: sleep, fetch, compare.  On the target state
\* the function returns to its caller; of its locals the model keeps the
\* state fetched last until the next call.
WfsPoll ==
    /\ pc = "wait_for_state"
    /\ elapsed < PollingTimeout
    /\ \E fetched \in ClusterStates \cup {"AtlasClientError"} :
          /\ obs' = IF operation = NoOp THEN obs ELSE Observe(obs, fetched)
          /\ IF fetched = "AtlasClientError"
             THEN /\ elapsed' = FetchTime(elapsed)
                  /\ UNCHANGED <<pc, actual_state, target_state, ret>>
             ELSE IF Reached(fetched, target_state)
             THEN /\ pc' = ret
                  /\ target_state' = "none"
                  /\ ret' = "none"
                  /\ elapsed' = 0
                  /\ actual_state' = fetched
             ELSE /\ elapsed' = FetchTime(elapsed)
                  /\ actual_state' = fetched
                  /\ UNCHANGED <<pc, target_state, ret>>
    /\ UNCHANGED <<error, raised_at, fo, member_region, patches>>
    /\ UNCHANGED <<schedVars, runVars>>

\* Mutant of WfsTimeout: at the timeout the function returns to its caller.
WfsTimeoutReturns ==
    /\ pc = "wait_for_state"
    /\ ~(elapsed < PollingTimeout)
    /\ pc' = ret
    /\ target_state' = "none"
    /\ ret' = "none"
    /\ elapsed' = 0
    /\ actual_state' = "unbound"
    /\ UNCHANGED <<error, raised_at>>
    /\ UNCHANGED <<schedVars, runVars, opVars>>

\* The loop ended without ok: raise PollingTimeoutError(... actual_state ...).
\* The message reads actual_state, which no iteration may have bound.
WfsTimeout ==
    /\ pc = "wait_for_state"
    /\ ~(elapsed < PollingTimeout)
    /\ Raise(IF actual_state = "unbound" THEN "UnboundLocalError"
                                         ELSE "PollingTimeoutError")
    /\ UNCHANGED <<schedVars, runVars, pollVars, opVars>>

\* ------------------------------------------------------ AtlasTestCase.run
\* Mutant of RunVerify: the workload is spawned before the configuration is
\* verified.
RunVerifySpawnsFirst ==
    /\ pc = "run_verify"
    /\ log' = Append(log, <<"run", Active>>)
    /\ workload' = [workload EXCEPT ![Active] = "running"]
    /\ \E verified \in {"ok", "AssertionError", "AtlasApiError"} :
          IF verified = "ok"
          THEN /\ timer' = "test"
               /\ pc' = "run_ops"
               /\ UNCHANGED <<error, raised_at>>
          ELSE /\ Raise(verified)
               /\ UNCHANGED timer
    /\ UNCHANGED <<cleanVars, initVars, cases, persist_clusters, no_create,
                   initIdx, remaining, all_ok, result,
                   failed, reports>>
    /\ UNCHANGED <<op_index, operation, stats, junit_test, deletes>>
    /\ UNCHANGED <<pollVars, opVars>>

\* Step-1: verify_cluster_configuration_matches(initialConfiguration), then
\* the test timer is started.
RunVerify ==
    /\ pc = "run_verify"
    /\ log' = Append(log, <<"run", Active>>)
    /\ \E verified \in {"ok", "AssertionError", "AtlasApiError"} :
          IF verified = "ok"
          THEN /\ timer' = "test"
               /\ pc' = "run_spawn"
               /\ UNCHANGED <<error, raised_at>>
          ELSE /\ Raise(verified)
               /\ UNCHANGED timer
    /\ UNCHANGED <<cleanVars, initVars, cases, persist_clusters, no_create,
                   initIdx, remaining, all_ok, result,
                   failed, reports>>
    /\ UNCHANGED <<op_index, operation, stats, junit_test, deletes, workload>>
    /\ UNCHANGED <<pollVars, opVars>>

\* Step-2: workload_runner.spawn(connection_string=get_connection_string(),
\* ...).  The connection string is computed first and its fetch may fail.
RunSpawn ==
    /\ pc = "run_spawn"
    /\ \E fetched \in Answers :
          IF fetched = "ok"
          THEN /\ workload' = [workload EXCEPT ![Active] = "running"]
               /\ pc' = "run_ops"
               /\ UNCHANGED <<error, raised_at>>
          ELSE /\ Raise("AtlasApiError")
               /\ UNCHANGED workload
    /\ UNCHANGED <<op_index, operation, timer, stats, junit_test, deletes>>
    /\ UNCHANGED <<schedVars, pollVars, opVars>>

\* Mutant of Dispatch: an operation of unknown name is skipped.
DispatchSkipsUnknown(name) ==
    CASE name = "setClusterConfiguration" -> "set_push"
      [] name = "testFailover" -> "fo_start"
      [] name = "sleep" -> "op_sleep"
      [] name = "waitForIdle" -> "op_wait_idle"
      [] name = "restartVms" -> "rv_reboot"
      [] name = "assertPrimaryRegion" -> "apr_start"
      [] OTHER -> "op_sleep"

\* Where the if/elif chain sends an operation with exactly one key.
Dispatch(name) ==
    CASE name = "setClusterConfiguration" -> "set_push"
      [] name = "testFailover" -> "fo_start"
      [] name = "sleep" -> "op_sleep"
      [] name = "waitForIdle" -> "op_wait_idle"
      [] name = "restartVms" -> "rv_reboot"
      [] name = "assertPrimaryRegion" -> "apr_start"
      [] OTHER -> "unrecognized"

\* for operation in self.spec.operations: the next record of the list, the
\* check of its length and the dispatch on its key.
RunNextOp ==
    /\ pc = "run_ops"
    /\ op_index < MaxOps
    /\ \E o \in Operations :
          /\ operation' = o
          /\ IF o.keys # 1
             THEN Raise("ValueError")
             ELSE IF Dispatch(o.name) = "unrecognized"
             THEN Raise("Exception")
             ELSE /\ pc' = Dispatch(o.name)
                  /\ UNCHANGED <<error, raised_at>>
    /\ obs' = NoObs
    /\ fo' = NoFo
    /\ member_region' = "unbound"
    /\ patches' = <<>>
    /\ UNCHANGED <<op_index, timer, stats, junit_test, deletes, workload>>
    /\ UNCHANGED <<schedVars, pollVars>>

\* An operation ran to its end: the loop goes on to the next record.  The
\* locals of the operation and of its waits are dead from here on.
Complete ==
    /\ op_index' = op_index + 1
    /\ pc' = "run_ops"
    /\ operation' = NoOp
    /\ target_state' = "none"
    /\ ret' = "none"
    /\ elapsed' = 0
    /\ actual_state' = "unbound"
    /\ obs' = NoObs
    /\ fo' = NoFo
    /\ member_region' = "unbound"
    /\ patches' = <<>>

\* Mutant of RunOpsEnd: the workload is stopped right after the last
\* operation.
RunOpsEndSkipsSettle ==
    /\ pc = "run_ops"
    /\ pc' = "run_stop"
    /\ UNCHANGED <<error, raised_at>>
    /\ UNCHANGED <<schedVars, runVars, pollVars, opVars>>

\* The operation list is exhausted.
RunOpsEnd ==
    /\ pc = "run_ops"
    /\ pc' = "run_settle"
    /\ UNCHANGED <<error, raised_at>>
    /\ UNCHANGED <<schedVars, runVars, pollVars, opVars>>

\* sleep(10) after the last operation.
RunSettle ==
    /\ pc = "run_settle"
    /\ pc' = "run_stop"
    /\ UNCHANGED <<error, raised_at>>
    /\ UNCHANGED <<schedVars, runVars, pollVars, opVars>>

\* Step-5: stats = self.workload_runner.stop()
RunStop ==
    /\ pc = "run_stop"
    /\ \/ /\ \E st \in Stats : stats' = st
          /\ workload' = [workload EXCEPT ![Active] = "stopped"]
          /\ pc' = "run_verdict"
          /\ UNCHANGED <<error, raised_at>>
       \/ /\ Raise("WorkloadExecutorError")
          /\ UNCHANGED <<stats, workload>>
    /\ UNCHANGED <<op_index, operation, timer, junit_test, deletes>>
    /\ UNCHANGED <<schedVars, pollVars, opVars>>

\* failure = numErrors != 0 or numFailures != 0 or numSuccesses == 0
Failure(st) == st.numErrors # 0 \/ st.numFailures # 0 \/ st.numSuccesses = 0

\* Mutant of MarkFailed: the expectation is ignored.
MarkFailedIgnoringExpectation(st, expect_failure) == Failure(st)

\* if failure != self.expect_failure: the test case is marked failed.
MarkFailed(st, expect_failure) == Failure(st) # expect_failure

\* Step-6: timer.stop(), the xunit entry and the verdict.
RunVerdict ==
    /\ pc = "run_verdict"
    /\ IF MarkFailed(stats, cases[Active].expect_failure)
       THEN /\ failed' = [failed EXCEPT ![Active] = TRUE]
            /\ junit_test' = [time_from |-> timer, result |-> "Failure"]
       ELSE /\ junit_test' = [time_from |-> timer, result |-> "passed"]
            /\ UNCHANGED failed
    /\ pc' = "run_delete"
    /\ UNCHANGED <<cleanVars, initVars, cases, persist_clusters, no_create,
                   initIdx, remaining, all_ok, result,
                   reports, log, error, raised_at>>
    /\ UNCHANGED <<op_index, operation, timer, stats, deletes, workload>>
    /\ UNCHANGED <<pollVars, opVars>>

\* Mutant of RunDelete: the deletion is requested whatever persist_cluster.
RunDeleteIgnoresPersist ==
    /\ pc = "run_delete"
    /\ deletes' = [deletes EXCEPT ![Active] = @ + 1]
    /\ \E answer \in Answers :
          IF answer = "ok"
          THEN /\ pc' = "run_finally"
               /\ UNCHANGED <<error, raised_at>>
          ELSE Raise("AtlasApiError")
    /\ UNCHANGED <<op_index, operation, timer, stats, junit_test, workload>>
    /\ UNCHANGED <<schedVars, pollVars, opVars>>

\* Step 7: if not persist_cluster: self.cluster_url.delete(); return junit_test
RunDelete ==
    /\ pc = "run_delete"
    /\ IF persist_clusters
       THEN /\ pc' = "run_finally"
            /\ UNCHANGED <<deletes, error, raised_at>>
       ELSE /\ deletes' = [deletes EXCEPT ![Active] = @ + 1]
            /\ \E answer \in Answers :
                  IF answer = "ok"
                  THEN /\ pc' = "run_finally"
                       /\ UNCHANGED <<error, raised_at>>
                  ELSE Raise("AtlasApiError")
    /\ UNCHANGED <<op_index, operation, timer, stats, junit_test, workload>>
    /\ UNCHANGED <<schedVars, pollVars, opVars>>

\* Mutant of AfterFinally: the exception in flight is swallowed.
AfterFinallySwallows(err) == "sched_report"

\* Where control goes after the finally clause: back to the scheduler with
\* the xunit entry, or out of SpecTestRunnerBase.run with the exception in
\* flight, which nothing there catches.
AfterFinally(err) == IF err = "none" THEN "sched_report" ELSE "aborted"

\* Mutant of RunFinally: the finally clause leaves the workload alone.
RunFinallyLeavesWorkload ==
    /\ pc = "run_finally"
    /\ pc' = AfterFinally(error)
    /\ UNCHANGED <<error, raised_at>>
    /\ UNCHANGED <<schedVars, runVars, pollVars, opVars>>

\* finally: self.workload_runner.terminate()
RunFinally ==
    /\ pc = "run_finally"
    /\ workload' = [workload EXCEPT ![Active] = "terminated"]
    /\ pc' = AfterFinally(error)
    /\ UNCHANGED <<op_index, operation, timer, stats, junit_test, deletes>>
    /\ UNCHANGED <<error, raised_at>>
    /\ UNCHANGED <<schedVars, pollVars, opVars>>

\* ------------------------------------------------ setClusterConfiguration
\* Mutant of Patches: the process arguments are patched first.
PatchesArgsFirst(cc, pa, cc_patch) ==
    (IF pa THEN <<"processArgs.patch">> ELSE <<>>)
    \o (IF cc THEN <<"patch">> ELSE <<>>)

\* The patch requests setClusterConfiguration sends: cluster_url.patch when
\* cluster_config is there, then cluster_url.processArgs.patch when
\* process_args is there and the first request did not raise.
Patches(cc, pa, cc_patch) ==
    (IF cc THEN <<"patch">> ELSE <<>>)
    \o (IF pa /\ (~cc \/ cc_patch = "ok") THEN <<"processArgs.patch">> ELSE <<>>)

\* The check of the plan and the patches, then wait_for_updating().
SetPush ==
    /\ pc = "set_push"
    /\ IF ~operation.cc /\ ~operation.pa
       THEN /\ Raise("RuntimeError")
            /\ UNCHANGED <<pollVars, obs, patches>>
       ELSE \E cc_patch, pa_patch \in Answers :
               /\ patches' = Patches(operation.cc, operation.pa, cc_patch)
               /\ IF \/ operation.cc /\ cc_patch # "ok"
                     \/ operation.pa /\ pa_patch # "ok"
                  THEN /\ Raise("AtlasApiError")
                       /\ UNCHANGED <<pollVars, obs>>
                  ELSE /\ obs' = NoObs
                       /\ WaitForUpdating("set_wait_idle")
                       /\ UNCHANGED <<error, raised_at>>
    /\ UNCHANGED <<fo, member_region>>
    /\ UNCHANGED <<schedVars, runVars>>

\* Step-4: self.wait_for_idle()
SetWaitIdle ==
    /\ pc = "set_wait_idle"
    /\ WaitForIdle("set_verify")
    /\ UNCHANGED <<error, raised_at>>
    /\ UNCHANGED <<schedVars, runVars, opVars>>

\* self.verify_cluster_configuration_matches(final_config)
SetVerify ==
    /\ pc = "set_verify"
    /\ \E verified \in {"ok", "AssertionError", "AtlasApiError"} :
          IF verified = "ok"
          THEN /\ Complete
               /\ UNCHANGED <<error, raised_at>>
          ELSE /\ Raise(verified)
               /\ UNCHANGED <<op_index, operation, pollVars, opVars>>
    /\ UNCHANGED <<timer, stats, junit_test, deletes, workload>>
    /\ UNCHANGED schedVars

\* ------------------------------------------------------------- restartVms
\* The reboot request, then wait_for_updating().
RvReboot ==
    /\ pc = "rv_reboot"
    /\ \E answer \in Answers :
          IF answer = "ok"
          THEN /\ obs' = NoObs
               /\ WaitForUpdating("rv_wait_idle")
               /\ UNCHANGED <<error, raised_at>>
          ELSE /\ Raise("AtlasApiError")
               /\ UNCHANGED <<pollVars, obs>>
    /\ UNCHANGED <<fo, member_region, patches>>
    /\ UNCHANGED <<schedVars, runVars>>

\* self.wait_for_idle() of restartVms
RvWaitIdle ==
    /\ pc = "rv_wait_idle"
    /\ WaitForIdle("op_done")
    /\ UNCHANGED <<error, raised_at>>
    /\ UNCHANGED <<schedVars, runVars, opVars>>

\* ------------------------------------------------------ sleep, waitForIdle
OpSleep ==
    /\ pc = "op_sleep"
    /\ Complete
    /\ UNCHANGED <<timer, stats, junit_test, deletes, workload>>
    /\ UNCHANGED <<error, raised_at>>
    /\ UNCHANGED schedVars

OpWaitIdle ==
    /\ pc = "op_wait_idle"
    /\ WaitForIdle("op_done")
    /\ UNCHANGED <<error, raised_at>>
    /\ UNCHANGED <<schedVars, runVars, opVars>>

\* The last wait of an operation returned: the operation is complete.
OpDone ==
    /\ pc = "op_done"
    /\ Complete
    /\ UNCHANGED <<timer, stats, junit_test, deletes, workload>>
    /\ UNCHANGED <<error, raised_at>>
    /\ UNCHANGED schedVars

\* ----------------------------------------------------------- testFailover
\* timer = Timer(); timer.start(); timeout = 300; start_time = now;
\* _time.sleep(5)
FoStart ==
    /\ pc = "fo_start"
    /\ timer' = "testFailover"
    /\ elapsed' = ClockDriftSleep
    /\ pc' = "fo_restart"
    /\ UNCHANGED <<op_index, operation, stats, junit_test, deletes, workload>>
    /\ UNCHANGED <<target_state, ret, actual_state>>
    /\ UNCHANGED <<error, raised_at>>
    /\ UNCHANGED <<schedVars, opVars>>

\* Mutant of RestartTimedOut: the comparison is turned around.
RestartTimedOutTooEarly(e) == e < FailoverTimeout

\* The condition of `if timer.elapsed > timeout` in the restart loop.
RestartTimedOut(e) == e > FailoverTimeout

\* Mutant of RestartStep: every error code is retried.
RestartStepRetriesAnyError(answer, e) ==
    IF answer = "ok" THEN "break"
    ELSE IF RestartTimedOut(e) THEN "raise PollingTimeoutError"
    ELSE "retry"

\* What the restart loop does with the answer to a restartPrimaries request:
\* leave the loop, raise, or sleep and ask again.
RestartStep(answer, e) ==
    IF answer = "ok" THEN "break"
    ELSE IF answer # "CLUSTER_RESTART_INVALID" THEN "raise AtlasApiError"
    ELSE IF RestartTimedOut(e) THEN "raise PollingTimeoutError"
    ELSE "retry"

\* One iteration of the restart loop: the request, the handling of its
\* answer, the timeout check and the sleep.  On break wait_for_planning
\* starts its own timer.
FoRestart ==
    /\ pc = "fo_restart"
    /\ \E answer \in Answers \cup {"CLUSTER_RESTART_INVALID"} :
       \E took \in {0, SlowCall} :
          LET e == elapsed + took
              step == RestartStep(answer, e)
          IN /\ fo' = [posts |-> fo.posts + 1,
                       rejected |-> fo.rejected
                           + (IF answer = "CLUSTER_RESTART_INVALID" THEN 1 ELSE 0),
                       accepted |-> fo.accepted + (IF answer = "ok" THEN 1 ELSE 0),
                       planned |-> fo.planned]
             /\ CASE step = "break" ->
                       /\ pc' = "fo_planning"
                       /\ elapsed' = 0
                       /\ UNCHANGED <<error, raised_at>>
                  [] step = "raise AtlasApiError" ->
                       /\ Raise("AtlasApiError")
                       /\ elapsed' = e
                  [] step = "raise PollingTimeoutError" ->
                       /\ Raise("PollingTimeoutError")
                       /\ elapsed' = e
                  [] OTHER ->
                       /\ elapsed' = e + RetrySleep
                       /\ UNCHANGED <<pc, error, raised_at>>
    /\ UNCHANGED <<target_state, ret, actual_state, obs, member_region, patches>>
    /\ UNCHANGED <<schedVars, runVars>>

\* start_time = datetime.datetime.now(timezone.utc): the origin of the
\* planning dates.
StartTime == 0

\* Values of data["lastPlanningDate"]: before, at and after start_time.
PlanningTimes == {StartTime - 1, StartTime, StartTime + 1}

\* Mutant of PlannedAfter: a planning date equal to start_time is accepted.
PlannedAtOrAfter(planning_time, start_time) == planning_time >= start_time

\* if planning_time > start_time
PlannedAfter(planning_time, start_time) == planning_time > start_time

\* AtlasTestCase.wait_for_planning: one iteration of its loop, or its end.
\* When it returns the restart loop's requests are no longer kept.
FoPlanning ==
    /\ pc = "fo_planning"
    /\ IF elapsed < PollingTimeout
       THEN \E fetched \in Answers : \E planning_time \in PlanningTimes :
               IF fetched # "ok"
               THEN /\ Raise("AtlasApiError")
                    /\ UNCHANGED <<elapsed, fo>>
               ELSE IF PlannedAfter(planning_time, StartTime)
               THEN /\ pc' = "fo_wait_idle"
                    /\ elapsed' = 0
                    /\ fo' = [NoFo EXCEPT !.planned = <<planning_time>>]
                    /\ UNCHANGED <<error, raised_at>>
               ELSE /\ elapsed' = elapsed + PlanningSleep
                    /\ fo' = [fo EXCEPT !.planned = <<planning_time>>]
                    /\ UNCHANGED <<pc, error, raised_at>>
       ELSE /\ Raise("PollingTimeoutError")
            /\ UNCHANGED <<elapsed, fo>>
    /\ UNCHANGED <<target_state, ret, actual_state, obs, member_region, patches>>
    /\ UNCHANGED <<schedVars, runVars>>

\* self.wait_for_idle() of testFailover
FoWaitIdle ==
    /\ pc = "fo_wait_idle"
    /\ WaitForIdle("op_done")
    /\ UNCHANGED <<error, raised_at>>
    /\ UNCHANGED <<schedVars, runVars, opVars>>

\* ---------------------------------------------------- assertPrimaryRegion
RegionAnswers == {"match", "mismatch", "PyMongoError"}

\* cluster_config = self.cluster_url.get().data; timer = Timer();
\* timer.start(); timeout = op_spec.get("timeout", 90)
AprStart ==
    /\ pc = "apr_start"
    /\ \E fetched \in Answers :
          IF fetched = "ok"
          THEN /\ timer' = "assertPrimaryRegion"
               /\ elapsed' = 0
               /\ pc' = "apr_poll"
               /\ UNCHANGED <<error, raised_at>>
          ELSE /\ Raise("AtlasApiError")
               /\ UNCHANGED <<timer, elapsed>>
    /\ UNCHANGED <<op_index, operation, stats, junit_test, deletes, workload>>
    /\ UNCHANGED <<target_state, ret, actual_state>>
    /\ UNCHANGED <<schedVars, opVars>>

\* while timer.elapsed < timeout: one region check and sleep(5); after the
\* loop, `if not ok` logs member_region, which no iteration may have bound,
\* before it starts log_cluster_status.
AprPoll ==
    /\ pc = "apr_poll"
    /\ IF elapsed < operation.timeout
       THEN \E answer \in RegionAnswers :
               CASE answer = "match" ->
                      /\ Complete
                      /\ UNCHANGED <<error, raised_at>>
                 [] answer = "mismatch" ->
                      /\ member_region' = "mismatch"
                      /\ elapsed' = elapsed + RegionSleep
                      /\ UNCHANGED <<pc, op_index, error, raised_at>>
                      /\ UNCHANGED <<operation, target_state, ret, actual_state, obs, fo>>
                      /\ UNCHANGED patches
                 [] OTHER ->
                      /\ Raise("PyMongoError")
                      /\ UNCHANGED <<op_index, operation, pollVars, opVars>>
       ELSE IF member_region = "unbound"
            THEN /\ Raise("UnboundLocalError")
                 /\ UNCHANGED <<op_index, operation, pollVars, opVars>>
            ELSE /\ pc' = "apr_log"
                 /\ elapsed' = 0
                 /\ UNCHANGED <<op_index, error, raised_at>>
                 /\ UNCHANGED <<operation, target_state, ret, actual_state, opVars>>
    /\ UNCHANGED <<timer, stats, junit_test, deletes, workload>>
    /\ UNCHANGED schedVars

\* AtlasTestCase.log_cluster_status: one iteration of its loop (a failed
\* fetch is logged like a state), or its end.
AprLog ==
    /\ pc = "apr_log"
    /\ IF elapsed < LogTimeout
       THEN /\ elapsed' = elapsed + LogSleep
            /\ \E fetched \in ClusterStates \cup {"AtlasClientError"} : pc' = pc
       ELSE /\ pc' = "apr_recheck"
            /\ UNCHANGED elapsed
    /\ UNCHANGED <<error, raised_at>>
    /\ UNCHANGED <<target_state, ret, actual_state>>
    /\ UNCHANGED <<schedVars, runVars, opVars>>

\* The region check after the diagnostic phase.
AprRecheck ==
    /\ pc = "apr_recheck"
    /\ \E answer \in RegionAnswers :
          CASE answer = "match" ->
                 /\ Complete
                 /\ UNCHANGED <<error, raised_at>>
            [] answer = "mismatch" ->
                 /\ Raise("Exception")
                 /\ UNCHANGED <<op_index, operation, pollVars, opVars>>
            [] OTHER ->
                 /\ Raise("PyMongoError")
                 /\ UNCHANGED <<op_index, operation, pollVars, opVars>>
    /\ UNCHANGED <<timer, stats, junit_test, deletes, workload>>
    /\ UNCHANGED schedVars

\* ------------------------------- SpecTestRunnerBase.clean_old_projects
\* Names are strings of characters: a letter, the hyphen and a decimal digit.
Chars == {"b", "-", "1"}

Digits == {"1"}

ProjectNames == UNION {[1..n -> Chars] : n \in 1..MaxName}

BaseNames == {<<"b">>, <<"1">>}

\* Values of int(_time.time()): the threshold lies at, and just above, the
\* timestamps 1 and 11.
Timestamps == {ExpirationThreshold + c : c \in {1, 2, 11, 12}}

\* name.startswith(base)
StartsWith(name, base) ==
    /\ Len(name) >= Len(base)
    /\ SubSeq(name, 1, Len(base)) = base

\* name.split("-"): the segments between the hyphens, empty ones included.
RECURSIVE Split(_)
Split(name) ==
    IF \A i \in DOMAIN name : name[i] # "-"
    THEN <<name>>
    ELSE LET k == CHOOSE k \in DOMAIN name :
                      name[k] = "-" /\ \A j \in 1..(k - 1) : name[j] # "-"
         IN <<SubSeq(name, 1, k - 1)>> \o Split(SubSeq(name, k + 1, Len(name)))

\* str.isnumeric(): at least one character and every character numeric.
IsNumeric(segment) ==
    /\ segment # <<>>
    /\ \A i \in DOMAIN segment : segment[i] \in Digits

\* int(segment) of a numeric segment.
RECURSIVE ToInt(_)
ToInt(segment) ==
    IF segment = <<>>
    THEN 0
    ELSE 10 * ToInt(SubSeq(segment, 1, Len(segment) - 1))
         + (IF segment[Len(segment)] = "1" THEN 1 ELSE 0)

\* try: project.name.split("-")[-2]  except Exception: ...split("-")[-1]
\* The index -2 fails only on a list of one segment.
ProjectTimestamp(name) ==
    LET parts == Split(name)
    IN IF Len(parts) >= 2 THEN parts[Len(parts) - 1] ELSE parts[Len(parts)]

\* project_timestamp.isnumeric() and int(project_timestamp) <
\* current_timestamp - self.project_expiration_threshold_seconds
Expired(name, now) ==
    LET project_timestamp == ProjectTimestamp(name)
    IN /\ IsNumeric(project_timestamp)
       /\ ToInt(project_timestamp) < now - ExpirationThreshold

\* Mutant of DeleteStep: every error code of the delete request is tolerated.
DeleteStepToleratesAll(answer) == "continue"

\* What the loop does with the answer to delete_project: go on to the next
\* project, also after GROUP_NOT_FOUND, or re-raise.
DeleteStep(answer) ==
    IF answer = "ok" THEN "continue"
    ELSE IF answer = "GROUP_NOT_FOUND" THEN "continue"
    ELSE "raise"

\* current_timestamp = int(_time.time());
\* projects_res = list_projects_in_org(...)
CleanStart ==
    /\ pc = "clean_start"
    /\ \E listed \in Answers :
          IF listed = "ok"
          THEN /\ pc' = "clean_loop"
               /\ UNCHANGED <<error, raised_at>>
          ELSE Raise("AtlasApiError")
    /\ UNCHANGED <<cleanVars, initVars, cases, persist_clusters, no_create,
                   initIdx, remaining, all_ok, result, failed, reports, log>>
    /\ UNCHANGED <<runVars, pollVars, opVars>>

\* for project in projects_res["results"]: one iteration on the next project
\* of the list.
CleanProject ==
    /\ pc = "clean_loop"
    /\ proj_idx < MaxProjects
    /\ proj_idx' = proj_idx + 1
    /\ \E name \in ProjectNames :
          /\ project' = name
          /\ IF StartsWith(name, project_base_name) /\ Expired(name, current_timestamp)
             THEN \E answer \in Answers \cup {"GROUP_NOT_FOUND"} :
                     /\ delete_request' = answer
                     /\ not_found' = not_found
                            + (IF answer = "GROUP_NOT_FOUND" THEN 1 ELSE 0)
                     /\ IF DeleteStep(answer) = "raise"
                        THEN Raise("AtlasApiError")
                        ELSE UNCHANGED <<pc, error, raised_at>>
             ELSE /\ delete_request' = "none"
                  /\ UNCHANGED <<not_found, pc, error, raised_at>>
    /\ UNCHANGED <<project_base_name, current_timestamp>>
    /\ UNCHANGED <<initVars, cases, persist_clusters, no_create,
                   initIdx, remaining, all_ok, result, failed, reports, log>>
    /\ UNCHANGED <<runVars, pollVars, opVars>>

\* The list of projects is exhausted: clean_old_projects returns.
CleanReturn ==
    /\ pc = "clean_loop"
    /\ pc' = "clean_done"
    /\ UNCHANGED <<error, raised_at>>
    /\ UNCHANGED <<schedVars, runVars, pollVars, opVars>>

\* The constructor of SpecTestRunnerBase at its call of clean_old_projects:
\* no case is built yet and no_create is false.
CleanInit ==
    /\ cases = <<>>
    /\ persist_clusters = FALSE
    /\ no_create = FALSE
    /\ pc = "clean_start"
    /\ error = "none"
    /\ initIdx = 0
    /\ remaining = <<>>
    /\ all_ok = TRUE
    /\ result = "none"
    /\ failed = <<>>
    /\ workload = <<>>
    /\ reports = <<>>
    /\ log = <<>>
    /\ op_index = 0
    /\ operation = NoOp
    /\ timer = "none"
    /\ stats = NoStats
    /\ junit_test = NoJunit
    /\ deletes = <<>>
    /\ target_state = "none"
    /\ ret = "none"
    /\ elapsed = 0
    /\ actual_state = "unbound"
    /\ obs = NoObs
    /\ fo = NoFo
    /\ member_region = "unbound"
    /\ patches = <<>>
    /\ raised_at = "none"
    /\ init_call = NoCall
    /\ init_requests = <<>>
    /\ project_base_name \in BaseNames
    /\ current_timestamp \in Timestamps
    /\ project = <<>>
    /\ proj_idx = 0
    /\ delete_request = "none"
    /\ not_found = 0

CleanNext ==
    \/ CleanStart
    \/ CleanProject
    \/ CleanReturn

CleanSpec == CleanInit /\ [][CleanNext]_vars

\* ---------------------------------------------------------- specification
Next ==
    \/ SchedInitialize
    \/ SchedCopy
    \/ SchedWaitForIdle
    \/ SchedReturn
    \/ SchedReport
    \/ WfsPoll
    \/ WfsTimeout
    \/ RunVerify
    \/ RunSpawn
    \/ RunNextOp
    \/ RunOpsEnd
    \/ RunSettle
    \/ RunStop
    \/ RunVerdict
    \/ RunDelete
    \/ RunFinally
    \/ SetPush
    \/ SetWaitIdle
    \/ SetVerify
    \/ RvReboot
    \/ RvWaitIdle
    \/ OpSleep
    \/ OpWaitIdle
    \/ OpDone
    \/ FoStart
    \/ FoRestart
    \/ FoPlanning
    \/ FoWaitIdle
    \/ AprStart
    \/ AprPoll
    \/ AprLog
    \/ AprRecheck

Spec == Init /\ [][Next]_vars

\* ------------------------------------------------------------------ claims
\* The verdict of the active run is out.
VerdictOut == junit_test # NoJunit

\* Spawned and neither terminated nor never started.
Alive(i) == workload[i] \in {"running", "stopped"}

\* The exception in flight was raised inside the try block of run.
RaisedInTry ==
    /\ error # "none"
    /\ \/ raised_at \in TryPcs
       \/ raised_at = "wait_for_state" /\ ret # "run_verify"

\* C1: a run that reaches the verdict step marks the case failed iff
\* failure != expectFailure, failure being numErrors != 0 or numFailures != 0
\* or numSuccesses == 0.  Without expectFailure a failed verdict has one of
\* the three conditions and a success none; with expectFailure a failed
\* verdict has no error, no failure and at least one success.
C1_VerdictXor ==
    VerdictOut =>
        LET expect == cases[Active].expect_failure
            observed == \/ stats.numErrors # 0
                        \/ stats.numFailures # 0
                        \/ stats.numSuccesses = 0
        IN /\ failed[Active] <=> (observed # expect)
           /\ (junit_test.result = "Failure") <=> failed[Active]
           /\ ~expect /\ failed[Active] =>
                 \/ stats.numErrors > 0
                 \/ stats.numFailures > 0
                 \/ stats.numSuccesses = 0
           /\ ~expect /\ ~failed[Active] =>
                 /\ stats.numErrors = 0
                 /\ stats.numFailures = 0
                 /\ stats.numSuccesses > 0
           /\ expect /\ failed[Active] =>
                 /\ stats.numErrors = 0
                 /\ stats.numFailures = 0
                 /\ stats.numSuccesses > 0

\* A clean workload under expectFailure is a failed verdict.
C1_Witness ==
    /\ VerdictOut
    /\ cases[Active].expect_failure
    /\ failed[Active]
    /\ stats.numErrors = 0 /\ stats.numFailures = 0 /\ stats.numSuccesses > 0

\* C2: on every exit path of AtlasTestCase.run (the return with a verdict,
\* an exception of an operation, a polling timeout, an exception while the
\* workload is stopped or the cluster deleted) the workload process that run
\* spawned has been terminated: once control is back in the scheduler, or
\* the exception has left it, no case's process is alive.
C2_TerminatedOnExit ==
    pc \in {"sched_report", "sched_loop", "aborted", "done"} =>
        \A i \in DOMAIN cases : ~Alive(i)

\* The stop of the workload raised and the process was terminated.
C2_Witness ==
    /\ pc = "aborted"
    /\ raised_at = "run_stop"
    /\ workload[Active] = "terminated"

\* C3: a setClusterConfiguration or restartVms operation completes only if,
\* since its patch or reboot request, a fetch showed "updating" and a later
\* one "idle"; an "idle" seen before any "updating" never completes it.
C3_UpdatingThenIdle ==
    [][(/\ op_index' = op_index + 1
        /\ operation.name \in {"setClusterConfiguration", "restartVms"})
       => obs.updating /\ obs.idleAfter]_vars

\* restartVms is through both waits after a stale "idle", an "updating" and
\* an "idle".
C3_Witness ==
    /\ pc = "op_done"
    /\ operation.name = "restartVms"
    /\ obs.idleBefore /\ obs.updating /\ obs.idleAfter

\* The operation at hand is one of the two with the updating-then-idle wait.
TwoPhaseOp == operation.name \in {"setClusterConfiguration", "restartVms"}

\* Every fetch since the request succeeded and showed "idle".
OnlyIdle ==
    /\ obs.idleBefore
    /\ ~obs.updating /\ ~obs.idleAfter /\ ~obs.other /\ ~obs.fetchError

\* C4 as stated: when every state fetch after a setClusterConfiguration or
\* restartVms request reports "idle", the operation is accepted and does not
\* fail.
C4_Original == TwoPhaseOp /\ OnlyIdle => error = "none"

\* C4 as amended: when every state fetch after the request reports "idle",
\* the operation is not accepted: it never gets past wait_for_updating, which
\* polls until the polling timeout has elapsed and then raises
\* PollingTimeoutError.
C4_OnlyIdleTimesOut ==
    TwoPhaseOp /\ OnlyIdle =>
        /\ pc \in {"wait_for_state", "run_finally", "aborted"}
        /\ target_state = "updating"
        /\ error # "none" =>
              /\ error = "PollingTimeoutError"
              /\ raised_at = "wait_for_state"
              /\ elapsed >= PollingTimeout

\* restartVms failed in wait_for_updating after nothing but "idle".
C4_Witness ==
    /\ operation.name = "restartVms"
    /\ OnlyIdle
    /\ error = "PollingTimeoutError"
    /\ target_state = "updating"

\* C5: in testFailover, with the restart request rejected N times with
\* CLUSTER_RESTART_INVALID and then accepted, and the elapsed time not above
\* 300 seconds, exactly N+1 requests are issued before the wait for
\* planning: a rejection is given up on only above 300 seconds, one request
\* is accepted, and none is issued after it.
C5_RestartRetries ==
    /\ fo.accepted <= 1
    /\ pc = "fo_planning" => fo.accepted = 1 /\ fo.posts = fo.rejected + 1
    /\ fo.accepted = 1 => pc \in {"fo_planning", "run_finally", "aborted"}
    /\ error = "PollingTimeoutError" /\ raised_at = "fo_restart" =>
          elapsed > FailoverTimeout

\* Three rejections, then the accepted request.
C5_Witness ==
    /\ pc = "fo_planning"
    /\ fo.rejected = 3
    /\ fo.posts = 4

\* C6: in testFailover, when every restart request is rejected with
\* CLUSTER_RESTART_INVALID the operation raises PollingTimeoutError once more
\* than 300 seconds have elapsed: no request is issued after a rejection
\* above 300 seconds, so the requests are bounded, and the wait for planning
\* is not reached.  A rejection with another code propagates at once: it is
\* the last request.
C6_RestartGivesUp ==
    /\ pc = "fo_restart" =>
          /\ fo.posts = fo.rejected
          /\ fo.accepted = 0
          /\ elapsed <= FailoverTimeout + RetrySleep
          /\ fo.posts <= FailoverTimeout \div RetrySleep
    /\ pc = "fo_planning" => fo.accepted > 0
    /\ error = "PollingTimeoutError" /\ raised_at = "fo_restart" =>
          /\ elapsed > FailoverTimeout
          /\ fo.posts = fo.rejected
          /\ fo.accepted = 0
          /\ pc \in {"run_finally", "aborted"}
    /\ error = "AtlasApiError" /\ raised_at = "fo_restart" =>
          /\ fo.posts = fo.rejected + 1
          /\ fo.accepted = 0
          /\ pc \in {"run_finally", "aborted"}

\* Sixty-one requests, all rejected, end in the timeout.
C6_Witness ==
    /\ error = "PollingTimeoutError"
    /\ raised_at = "fo_restart"
    /\ fo.posts = FailoverTimeout \div RetrySleep + 1
    /\ fo.rejected = fo.posts

\* Every case ended with failed == False.
NoCaseFailed == \A i \in DOMAIN cases : ~failed[i]

\* C7 as stated: SpecTestRunnerBase.run returns true exactly when every case
\* it ran ended with failed == False.
C7_Original ==
    pc = "done" /\ Len(cases) > 0 => (result = "True" <=> NoCaseFailed)

\* C7 as amended: all_ok is the logical AND of the per-case successes and
\* SpecTestRunnerBase.run returns its negation: False exactly when every
\* case it ran ended with failed == False, True when at least one case ended
\* with failed == True.
C7_ReturnsNotAllOk ==
    pc = "done" =>
        /\ Len(reports) = Len(cases)
        /\ all_ok <=> NoCaseFailed
        /\ result = "False" <=> NoCaseFailed
        /\ result = "True" <=> \E i \in DOMAIN cases : failed[i]

\* The first of two cases failed, the second did not.
C7_Witness ==
    /\ pc = "done"
    /\ Len(cases) = 2
    /\ failed[1] /\ ~failed[2]
    /\ result = "True"

\* C8 as stated: after a run aborted with a fatal error the scheduler goes on
\* to the later cases, so it never stops on such an error while cases remain
\* after the aborted one.
C8_Original == ~(pc = "aborted" /\ RaisedInTry /\ Len(remaining) > 1)

\* C8 as amended: when a case's run aborts with a fatal error, its workload
\* process is terminated and the error then leaves SpecTestRunnerBase.run:
\* the scheduler returns no result, writes no report for the case, and no
\* later case is waited for, run or reported.
C8_AbortEndsScheduler ==
    error # "none" =>
        /\ pc \in {"run_finally", "aborted"}
        /\ result = "none"
        /\ pc = "aborted" /\ RaisedInTry => workload[Active] = "terminated"
        /\ \A k \in DOMAIN reports : reports[k].id < Active
        /\ \A j \in DOMAIN cases :
              Active # 0 /\ j > Active =>
                 /\ workload[j] = "none"
                 /\ \A k \in DOMAIN log :
                       log[k][2] = j => log[k][1] = "initialize"

\* An unrecognized operation aborted the first of two cases.
C8_Witness ==
    /\ pc = "aborted"
    /\ error = "Exception"
    /\ raised_at = "run_ops"
    /\ Len(remaining) = 2
    /\ workload[1] = "terminated"
    /\ workload[2] = "none"

\* C9: initialize is called on every case, in worklist order, before
\* wait_for_idle or run is called on any case.
C9_InitializeFirst ==
    /\ \A k \in DOMAIN log :
          IF log[k][1] = "initialize"
          THEN log[k][2] = k /\ k <= Len(cases)
          ELSE /\ initIdx = Len(cases)
               /\ k > Len(cases)
               /\ \A j \in 1..Len(cases) : log[j] = <<"initialize", j>>
    /\ \A i \in DOMAIN cases : workload[i] # "none" => initIdx = Len(cases)

\* Two cases were initialized before the first was waited for.
C9_Witness ==
    /\ Len(cases) = 2
    /\ Len(log) > 2
    /\ log[3] = <<"wait_for_idle", 1>>

\* The scheduler's calls when n cases run without an exception.
ExpectedLog(n) ==
    [k \in 1..(4 * n) |->
        IF k <= n
        THEN <<"initialize", k>>
        ELSE LET m == k - n - 1
             IN << <<"wait_for_idle", "run", "write_xml">>[(m % 3) + 1],
                   (m \div 3) + 1 >>]

\* C10: the worklist is processed first-in first-out: each case is waited
\* for, run and reported once, in the order of the worklist, a case's run
\* following its own wait and the previous case's report; the loop ends when
\* the worklist is empty.
C10_Fifo ==
    /\ \A k \in DOMAIN log :
          k <= 4 * Len(cases) /\ log[k] = ExpectedLog(Len(cases))[k]
    /\ \A k \in DOMAIN reports : reports[k].id = k
    /\ pc # "sched_init" /\ raised_at # "sched_init" =>
          remaining = [k \in 1..(Len(cases) - Len(reports)) |-> Len(reports) + k]
    /\ pc = "done" =>
          /\ remaining = <<>>
          /\ Len(reports) = Len(cases)
          /\ Len(log) = 4 * Len(cases)

\* Two cases were run and reported.
C10_Witness ==
    /\ pc = "done"
    /\ Len(cases) = 2
    /\ Len(reports) = 2

\* C11: when AtlasTestCase.run completes with a verdict and persist_cluster
\* is false, exactly one deletion request for the cluster has been issued,
\* after the workload was stopped and the verdict computed, and run went
\* straight to its return (it never polls after the request); when
\* persist_cluster is true no deletion request is issued.
C11_DeleteOnce ==
    /\ \A i \in DOMAIN cases :
          /\ deletes[i] <= 1
          /\ deletes[i] > 0 =>
                /\ ~persist_clusters
                /\ workload[i] \in {"stopped", "terminated"}
    /\ Active # 0 /\ deletes[Active] > 0 =>
          /\ VerdictOut
          /\ stats # NoStats
          /\ pc \in {"run_finally", "sched_report", "aborted"}
    /\ pc = "sched_report" =>
          deletes[Active] = IF persist_clusters THEN 0 ELSE 1
    /\ \A k \in DOMAIN reports :
          deletes[reports[k].id] = IF persist_clusters THEN 0 ELSE 1

\* A run returned its verdict after one deletion request.
C11_Witness ==
    /\ pc = "sched_report"
    /\ ~persist_clusters
    /\ deletes[Active] = 1
    /\ workload[Active] = "terminated"
    /\ VerdictOut

\* The decimal timestamp embedded in a project name, in either layout: the
\* second-to-last hyphen-delimited segment when that is a number, else the
\* last one.
EmbeddedTimestamp(name) ==
    LET parts == Split(name)
    IN IF Len(parts) >= 2 /\ IsNumeric(parts[Len(parts) - 1])
       THEN parts[Len(parts) - 1]
       ELSE parts[Len(parts)]

\* The name embeds a timestamp strictly older than now minus the threshold.
EmbeddedExpired(name) ==
    /\ IsNumeric(EmbeddedTimestamp(name))
    /\ ToInt(EmbeddedTimestamp(name)) < current_timestamp - ExpirationThreshold

\* A delete request was issued for the project the loop examined last.
DeleteIssued == proj_idx > 0 /\ delete_request # "none"

\* C12: clean_old_projects issues a delete request for a project iff its
\* name starts with the configured base name and its embedded decimal
\* timestamp is strictly older than now minus 7200 seconds; a matching
\* project at or after the threshold and a project with another prefix are
\* retained.
C12_Original ==
    proj_idx > 0 =>
        (DeleteIssued <=> /\ StartsWith(project, project_base_name)
                          /\ EmbeddedExpired(project))

\* The project is named base-<timestamp>: the base name, a hyphen and a
\* decimal number.
NamedBaseTimestamp(name) ==
    /\ StartsWith(name, project_base_name \o <<"-">>)
    /\ IsNumeric(SubSeq(name, Len(project_base_name) + 2, Len(name)))

\* C13: the timestamp is recognised in the last segment as well as in the
\* second-to-last: an expired project named base-<timestamp> is deleted like
\* an expired project named base-<timestamp>-<suffix>.
C13_Original ==
    /\ proj_idx > 0
    /\ NamedBaseTimestamp(project)
    /\ ToInt(SubSeq(project, Len(project_base_name) + 2, Len(project)))
          < current_timestamp - ExpirationThreshold
    => DeleteIssued

\* C14: a delete request answered GROUP_NOT_FOUND is swallowed: no error is
\* raised and the loop goes on to examine, and delete when expired, the
\* projects after it; a delete request that fails with another code is
\* re-raised and ends the cleanup.
C14_NotFoundTolerated ==
    /\ delete_request = "GROUP_NOT_FOUND" =>
          /\ error = "none"
          /\ pc \in {"clean_loop", "clean_done"}
          /\ pc = "clean_loop" /\ proj_idx < MaxProjects => ENABLED CleanProject
    /\ delete_request = "OTHER_ERROR" =>
          /\ error = "AtlasApiError"
          /\ raised_at = "clean_loop"
          /\ pc = "aborted"
    /\ pc = "aborted" => ~ENABLED CleanProject
    /\ DeleteIssued =>
          /\ StartsWith(project, project_base_name)
          /\ Expired(project, current_timestamp)
    /\ not_found <= proj_idx

\* After a tolerated GROUP_NOT_FOUND the next project was deleted.
C14_Witness ==
    /\ pc = "clean_done"
    /\ not_found = 1
    /\ proj_idx = 2
    /\ delete_request = "ok"

\* C15: whenever the target state is not observed before the timeout, also
\* when some or all fetches fail with a client error, wait_for_state ends by
\* raising PollingTimeoutError with the last observed state and the elapsed
\* time; a failed fetch only consumes an iteration.
C15_Original ==
    error # "none" /\ raised_at = "wait_for_state" =>
        /\ error = "PollingTimeoutError"
        /\ elapsed >= PollingTimeout

\* The case of the last initialize call.
InitCase == IF init_call.error = "none" THEN initIdx ELSE initIdx + 1

\* An initialize call was made and its answers are at hand.
InitCalled == init_call.probe # "none"

\* C16: initialize(no_create=True) on a cluster that exists and whose
\* configuration and process arguments contain the initial configuration
\* returns without a create, patch or process-args request; every such call,
\* the first as well as a repeated one, issues no mutating request.
C16_ReuseIssuesNothing ==
    init_call.reuse /\ init_call.probe = "ok" /\ init_call.matches =>
        /\ init_call.error = "none"
        /\ initIdx >= 1
        /\ init_requests[initIdx] = <<>>

\* Two calls in a row found their clusters and issued nothing.
C16_Witness ==
    /\ no_create
    /\ initIdx = 2
    /\ init_call.probe = "ok" /\ init_call.matches
    /\ init_requests[1] = <<>>
    /\ init_requests[2] = <<>>

\* C17: initialize fails fatally on every remote error it does not handle:
\* an error of the create request other than DUPLICATE_CLUSTER_NAME, an error
\* of the reconfiguration or of the process-args patch, and an error of the
\* existence probe other than CLUSTER_NOT_FOUND each propagate, and no request
\* is issued after the failing one; on DUPLICATE_CLUSTER_NAME the cluster is
\* patched with the configuration without its name.
C17_Original ==
    InitCalled =>
        LET requests == init_requests[InitCase]
            reused == init_call.reuse /\ init_call.probe = "ok" /\ init_call.matches
            last == requests[Len(requests)].call
        IN /\ init_call.reuse /\ init_call.probe = "OTHER_ERROR" =>
                 /\ init_call.error # "none"
                 /\ requests = <<>>
           /\ ~reused /\ requests # <<>> /\ init_call.post = "OTHER_ERROR" =>
                 init_call.error # "none" /\ last = "clusters.post"
           /\ ~reused /\ requests # <<>> /\ init_call.post = "DUPLICATE_CLUSTER_NAME" =>
                 /\ Len(requests) >= 2
                 /\ requests[2] = Request("clusters.patch", FALSE)
                 /\ init_call.patch # "ok" =>
                       init_call.error # "none" /\ last = "clusters.patch"
           /\ requests # <<>> /\ init_call.error # "none" =>
                 last \in {"clusters.post", "clusters.patch", "processArgs.patch"}
           /\ /\ requests # <<>>
              /\ last = "processArgs.patch"
              /\ init_call.pa_patch # "ok"
              => init_call.error # "none"

\* A step of the poll of wait_for_state that raises nothing: one iteration.
\* Its fetch starts at FetchTime(elapsed).
WfsIteration == pc = "wait_for_state" /\ error' = "none"

\* wait_for_state returns to its caller.
WfsReturns == WfsIteration /\ pc' # "wait_for_state"

\* C18 as stated: wait_for_state returns only if one of its fetches showed
\* the target state, at the first such fetch, and no fetch is started once
\* the elapsed time has reached the timeout.
C18_Original ==
    [][/\ WfsReturns => actual_state' = target_state /\ pc' = ret
       /\ WfsIteration /\ ~WfsReturns => actual_state' # target_state
       /\ WfsIteration => FetchTime(elapsed) < PollingTimeout]_vars

\* C18 as amended: wait_for_state returns only if one of its fetches showed
\* the target state, at the first such fetch (while it polls the target has
\* not been fetched); no iteration is started once the elapsed time has
\* reached the timeout, but the fetch of an iteration follows its sleep, so
\* the last fetch may start up to one polling interval after the timeout.
C18_StopsAtTarget ==
    [][/\ WfsReturns => actual_state' = target_state /\ pc' = ret
       /\ WfsIteration /\ ~WfsReturns => actual_state' # target_state
       /\ WfsIteration =>
             /\ elapsed < PollingTimeout
             /\ FetchTime(elapsed) < PollingTimeout + PollInterval]_vars

\* wait_for_updating returned on "updating" after an "idle".
C18_Witness ==
    /\ pc = "set_wait_idle"
    /\ actual_state = "updating"
    /\ obs.idleBefore /\ obs.updating

\* C19: when the remote configuration or process arguments do not contain
\* the initial configuration at the call of run, run fails before anything
\* else: no workload is spawned, no operation is executed, no patch, reboot,
\* restart or deletion request is issued and no verdict is produced.
C19_MismatchFailsFirst ==
    raised_at = "run_verify" =>
        /\ error \in {"AssertionError", "AtlasApiError"}
        /\ pc = "aborted"
        /\ workload[Active] = "none"
        /\ timer = "none"
        /\ op_index = 0 /\ operation = NoOp
        /\ obs = NoObs /\ fo = NoFo
        /\ deletes[Active] = 0
        /\ stats = NoStats /\ junit_test = NoJunit
        /\ ~failed[Active]
        /\ \A k \in DOMAIN reports : reports[k].id # Active

\* The second case's configuration did not match after the first case ran.
C19_Witness ==
    /\ error = "AssertionError"
    /\ raised_at = "run_verify"
    /\ Len(reports) = 1
    /\ Active = 2

\* The operation names the if/elif chain knows.
KnownOps == {"setClusterConfiguration", "testFailover", "sleep", "waitForIdle",
             "restartVms", "assertPrimaryRegion"}

\* The record at hand has not exactly one key, or a key of unknown name.
Malformed == operation # NoOp /\ (operation.keys # 1 \/ operation.name \notin KnownOps)

\* C20: an operation record whose single key is none of the six operation
\* names, or that has not exactly one key, makes run fail at that position:
\* the operations before it were executed, nothing of it or after it is
\* executed (it is not retried), the workload is not stopped for statistics,
\* no verdict is produced and the cluster is not deleted.
C20_MalformedIsFatal ==
    /\ Malformed =>
          /\ error = (IF operation.keys # 1 THEN "ValueError" ELSE "Exception")
          /\ raised_at = "run_ops"
          /\ pc \in {"run_finally", "aborted"}
          /\ ~ENABLED RunNextOp
          /\ op_index < MaxOps
          /\ obs = NoObs /\ fo = NoFo
          /\ workload[Active] \in {"running", "terminated"}
          /\ stats = NoStats /\ junit_test = NoJunit
          /\ ~failed[Active]
          /\ deletes[Active] = 0
    /\ raised_at = "run_ops" => Malformed

\* An unknown operation after one executed operation ended the run.
C20_Witness ==
    /\ operation.name = "bogusOperation"
    /\ op_index = 1
    /\ pc = "aborted"
    /\ workload[Active] = "terminated"
    /\ deletes[Active] = 0

\* The first polling phase of assertPrimaryRegion is over without a match.
RegionPhaseTimedOut == pc = "apr_poll" /\ ~(elapsed < operation.timeout)

\* The step completes the assertPrimaryRegion at hand.
RegionSucceeds ==
    operation.name = "assertPrimaryRegion" /\ op_index' = op_index + 1

\* C21: assertPrimaryRegion succeeds only at a check of the first polling
\* phase, within the operation's timeout, or at the single re-check after
\* the diagnostic phase; when the first phase times out the diagnostic phase
\* (up to 1800 s) runs, then the region is checked once more and a mismatch
\* there is fatal.  This for every timeout value, 0 included.
C21_Original ==
    [][/\ RegionSucceeds =>
             \/ pc = "apr_poll" /\ elapsed < operation.timeout
             \/ pc = "apr_recheck"
       /\ RegionPhaseTimedOut => pc' = "apr_log" /\ error' = "none"
       /\ pc = "apr_log" =>
             \/ pc' = "apr_log" /\ elapsed < LogTimeout
             \/ pc' = "apr_recheck" /\ elapsed >= LogTimeout
       /\ pc = "apr_recheck" =>
             \/ RegionSucceeds
             \/ error' \in {"Exception", "PyMongoError"} /\ pc' = "run_finally"
      ]_vars

\* A fetch of the operation at hand showed "idle".
IdleSeen == obs.idleBefore \/ obs.idleAfter

\* The planning date fetched last is strictly later than start_time.
PlanningSeen == fo.planned # <<>> /\ fo.planned[1] > StartTime

\* The testFailover at hand is past wait_for_planning.
FailoverPlanned ==
    /\ operation.name = "testFailover"
    /\ \/ pc \in {"fo_wait_idle", "op_done"}
       \/ pc = "wait_for_state" /\ ret = "op_done"

\* C22: testFailover completes only if, after the restart request was
\* accepted, a planning date strictly later than the start time recorded
\* before the restart was fetched and, after that, the cluster was seen
\* "idle"; when no such planning date is fetched within the polling timeout
\* the operation fails with PollingTimeoutError and never waits for idle.
C22_PlanningThenIdle ==
    [][/\ operation.name = "testFailover" /\ op_index' = op_index + 1 =>
             /\ pc = "op_done"
             /\ PlanningSeen
             /\ IdleSeen
       /\ FailoverPlanned' => PlanningSeen'
       /\ pc' = "fo_wait_idle" =>
             /\ pc = "fo_planning"
             /\ fo.accepted = 1
             /\ elapsed < PollingTimeout
             /\ ~IdleSeen
       /\ pc = "fo_planning" /\ ~(elapsed < PollingTimeout) =>
             /\ error' = "PollingTimeoutError"
             /\ pc' = "run_finally"
             /\ ~PlanningSeen'
             /\ UNCHANGED obs
      ]_vars

\* The failover was planned after its start and the cluster then seen idle.
C22_Witness ==
    /\ operation.name = "testFailover"
    /\ pc = "op_done"
    /\ PlanningSeen
    /\ IdleSeen

\* The setClusterConfiguration at hand has sent its patches without an error.
ConfigurationPushed ==
    /\ operation.name = "setClusterConfiguration"
    /\ error = "none"
    /\ pc # "set_push"

\* C23: a setClusterConfiguration with neither a cluster configuration nor
\* process arguments fails before any patch request and before any polling;
\* with at least one, each patch that is present is sent exactly once, the
\* cluster configuration before the process arguments, and after "idle" was
\* reached the remote configuration is verified against the operation's
\* target, a mismatch being fatal.
C23_PushThenVerify ==
    [][/\ /\ operation'.name = "setClusterConfiguration"
          /\ ~operation'.cc /\ ~operation'.pa
          => /\ patches' = <<>>
             /\ obs' = NoObs
             /\ pc' \in {"set_push", "run_finally", "aborted"}
             /\ pc' # "set_push" =>
                   error' = "RuntimeError" /\ raised_at' = "set_push"
       /\ ConfigurationPushed' =>
             patches' = (IF operation'.cc THEN <<"patch">> ELSE <<>>)
                        \o (IF operation'.pa THEN <<"processArgs.patch">> ELSE <<>>)
       /\ operation'.name = "setClusterConfiguration" =>
             /\ Len(patches') <= 2
             /\ Len(patches') = 2 => patches'[1] # patches'[2]
       /\ pc' = "set_verify" =>
             /\ ConfigurationPushed'
             /\ obs'.updating /\ obs'.idleAfter
       /\ operation.name = "setClusterConfiguration" /\ op_index' = op_index + 1 =>
             pc = "set_verify"
       /\ pc = "set_verify" /\ op_index' = op_index =>
             /\ error' \in {"AssertionError", "AtlasApiError"}
             /\ pc' = "run_finally"
      ]_vars

\* Both patches were sent, the cluster went idle and is about to be verified.
C23_Witness ==
    /\ pc = "set_verify"
    /\ patches = <<"patch", "processArgs.patch">>
    /\ obs.idleAfter

\* C24: in a run in which nothing raises the steps come in this order: the
\* spawn of the workload, the operations one after the other, each complete
\* before the next begins, the settle sleep, the stop of the workload that
\* collects the statistics (once), the verdict, the deletion request (when
\* the cluster is not persisted) and the termination of the workload; the
\* workload is never stopped before the last operation is complete.
C24_StepOrder ==
    [][/\ \A i \in DOMAIN cases :
             /\ workload'[i] # workload[i] =>
                   /\ i = Active
                   /\ workload'[i] = "running" =>
                         pc = "run_spawn" /\ workload[i] = "none" /\ op_index = 0
                   /\ workload'[i] = "stopped" =>
                         pc = "run_stop" /\ workload[i] = "running"
                   /\ workload'[i] = "terminated" => pc = "run_finally"
             /\ deletes'[i] # deletes[i] =>
                   /\ i = Active
                   /\ pc = "run_delete"
                   /\ workload[i] = "stopped"
                   /\ VerdictOut
       /\ operation' # operation /\ operation' # NoOp =>
             /\ pc = "run_ops" /\ operation = NoOp
             /\ workload[Active] = "running"
       /\ op_index' # op_index =>
             \/ /\ op_index' = op_index + 1
                /\ operation # NoOp /\ operation' = NoOp
                /\ pc' = "run_ops"
                /\ workload[Active] = "running"
             \/ pc = "sched_report" /\ op_index' = 0
       /\ pc' = "run_settle" => pc = "run_ops" /\ operation = NoOp
       /\ pc' = "run_stop" => pc = "run_settle"
       /\ stats' # stats /\ stats' # NoStats =>
             pc = "run_stop" /\ stats = NoStats /\ operation = NoOp
       /\ pc' = "run_verdict" => pc = "run_stop" /\ stats' # NoStats
       /\ junit_test' # junit_test /\ junit_test' # NoJunit =>
             pc = "run_verdict" /\ workload[Active] = "stopped"
       /\ pc' = "run_delete" => pc = "run_verdict"
       /\ pc' = "run_finally" /\ error' = "none" => pc = "run_delete"
       /\ pc' = "sched_report" =>
             pc = "run_finally" /\ workload'[Active] = "terminated"
      ]_vars

\* A run of two operations went through every step and deleted its cluster.
C24_Witness ==
    /\ pc = "sched_report"
    /\ op_index = 2
    /\ stats # NoStats
    /\ deletes[Active] = 1
    /\ workload[Active] = "terminated"

\* C25: the duration of a verdict is measured from the test timer, the one
\* started just before the workload is spawned, whatever operations the run
\* executed: a testFailover or an assertPrimaryRegion does not change the
\* start instant of the reported duration.
C25_Original == VerdictOut => junit_test.time_from = "test"

\* The case of the scheduler is inside its run: between the spawn of the
\* workload and the end of the finally clause.
InsideRun == InTry \/ pc = "run_finally"

\* C26: at most one workload process is alive at any time; a live workload
\* belongs to the case at the head of the queue, which is inside its run, and
\* the workload of every other case is not started or is terminated; none is
\* alive while the scheduler initializes, waits for or reports a case.
C26_OneWorkloadAlive ==
    /\ Cardinality({i \in DOMAIN cases : Alive(i)}) <= 1
    /\ \A i \in DOMAIN cases :
          /\ Alive(i) => i = Active /\ InsideRun
          /\ i # Active => workload[i] \in {"none", "terminated"}
    /\ ~InsideRun => \A i \in DOMAIN cases : ~Alive(i)

\* The workload of the second case runs and that of the first is terminated.
C26_Witness ==
    /\ Len(cases) = 2
    /\ workload[1] = "terminated"
    /\ workload[2] = "running"
    /\ InTry

====
